---- MODULE Spec2Model ----
(***************************************************************************)
(* A model of the build wrapper: the library registry (library.py), the    *)
(* build model loader (buildinfo.py), the source-set change detector, the  *)
(* generator and the orchestrator (driver.py).                             *)
(*                                                                         *)
(* Values.  A JSON object is a function from its keys (an optional key is  *)
(* absent from the DOMAIN).  A path is a sequence of parts, a part is a    *)
(* sequence of tokens ("*" is the wildcard token), and a text is a         *)
(* sequence of tokens in which "/" separates the parts of a path and "\n"  *)
(* ends a line.                                                            *)
(*                                                                         *)
(* Scope.  Target names are unique within a description.  A directory      *)
(* enumerates its files in the order of their creation.  Time is a clock   *)
(* that ticks when build.info is rewritten: a file written between two     *)
(* ticks carries the time of the first.  The git steps and the creation of *)
(* the build directory are left out, as are cmake and make themselves:     *)
(* only whether they are invoked is recorded.                              *)
(***************************************************************************)
EXTENDS Integers, Sequences, FiniteSets, TLC

VARIABLES
    buildfile,    \* build.info: [doc, mtime]
    files,        \* the source tree: the existing files, in enumeration order
    srcdir,       \* <builddir>/srcs: record name -> text
    cmakelists,   \* CMakeLists.txt: NoFile or [text, mtime]
    run,          \* what the last handle_run_build was given and did
    last,         \* the last completed check_source_files, and how it
                  \* compares with the one before
    touched,      \* a source file's contents changed since the last one
    info,         \* an Info value held by a caller of the generator
    rendered      \* the texts generate_cmake wrote for info, oldest first

vars == <<buildfile, files, srcdir, cmakelists, run, last, touched, info, rendered>>

----------------------------------------------------------------------------
(* Generic sequence helpers.                                               *)

Range(s) == {s[i] : i \in DOMAIN s}

RECURSIVE Flatten(_)
Flatten(ss) == IF ss = <<>> THEN <<>> ELSE Head(ss) \o Flatten(Tail(ss))

RECURSIVE SeqsUpTo(_, _)
SeqsUpTo(S, n) ==
    IF n = 0 THEN {<<>>}
    ELSE LET shorter == SeqsUpTo(S, n - 1)
         IN  shorter \cup {Append(s, x) : s \in shorter, x \in S}

Reverse(s) == [i \in DOMAIN s |-> s[Len(s) + 1 - i]]

NoDuplicates(s) == \A i, j \in DOMAIN s : i # j => s[i] # s[j]

\* dict.get(key, default)
GetOr(data, key, default) == IF key \in DOMAIN data THEN data[key] ELSE default

\* An optional value: None, or <<x>> for the value x.
None == <<>>

\* dict.get(key)
Get(data, key) == IF key \in DOMAIN data THEN <<data[key]>> ELSE None

----------------------------------------------------------------------------
(* util.py                                                                 *)

\* unique_list: keys[i] is key(lst[i]); seen_set is the closure's set.
RECURSIVE unique_from(_, _, _, _)
unique_from(lst, keys, i, seen_set) ==
    IF i > Len(lst) THEN <<>>
    ELSE IF keys[i] \in seen_set
         THEN unique_from(lst, keys, i + 1, seen_set)
         ELSE <<lst[i]>> \o unique_from(lst, keys, i + 1, seen_set \cup {keys[i]})

\* unique_list, were it to keep the last occurrence of a repeated element.
unique_list_keep_last(lst) ==
    Reverse(unique_from(Reverse(lst), Reverse(lst), 1, {}))

unique_list(lst) == unique_from(lst, lst, 1, {})

unique_list_key(lst, keys) == unique_from(lst, keys, 1, {})

----------------------------------------------------------------------------
(* Texts: str.split and str.join on "\n" and on "/".                       *)

\* s.split(sep): the pieces between the separators, empty pieces included.
RECURSIVE split(_, _)
split(text, sep) ==
    IF text = <<>> THEN << <<>> >>
    ELSE LET rest == split(Tail(text), sep)
         IN  IF Head(text) = sep THEN << <<>> >> \o rest
             ELSE << <<Head(text)>> \o Head(rest) >> \o Tail(rest)

\* sep.join(pieces)
RECURSIVE join(_, _)
join(pieces, sep) ==
    IF pieces = <<>> THEN <<>>
    ELSE IF Len(pieces) = 1 THEN Head(pieces)
    ELSE Head(pieces) \o <<sep>> \o join(Tail(pieces), sep)

\* [x for x in pieces if x]
RECURSIVE non_empty(_)
non_empty(pieces) ==
    IF pieces = <<>> THEN <<>>
    ELSE IF Head(pieces) = <<>> THEN non_empty(Tail(pieces))
    ELSE <<Head(pieces)>> \o non_empty(Tail(pieces))

\* str(path): the parts joined by "/", "." for the path of no parts.
path_str(path) == IF path = <<>> THEN <<".">> ELSE join(path, "/")

\* [part for part in parts if part != '.']
RECURSIVE no_dots(_)
no_dots(parts) ==
    IF parts = <<>> THEN <<>>
    ELSE IF Head(parts) = <<".">> THEN no_dots(Tail(parts))
    ELSE <<Head(parts)>> \o no_dots(Tail(parts))

\* pathlib.Path(text): the parts between the slashes; empty parts and "."
\* parts collapse.
Path(text) == no_dots(non_empty(split(text, "/")))

----------------------------------------------------------------------------
(* library.py                                                              *)

LibraryKeys == {"find_package", "pkg_check", "include_dirs", "link_dirs", "link_libs"}

\* jsonschema.validate(data, LIBRARY_SCHEMA): any library name, closed entries,
\* link_libs required.  A value is [list |-> <<...>>] or [command |-> "..."].
validate_library(data) ==
    \A name \in DOMAIN data :
        /\ DOMAIN data[name] \subseteq LibraryKeys
        /\ "link_libs" \in DOMAIN data[name]

Failed(why) == [ok |-> FALSE, err |-> why]

Ok(value) == [ok |-> TRUE, val |-> value]

\* get_values: None -> [], a list -> itself, a string -> the non-empty lines the
\* command prints; a non-zero return code exits.  sh maps a command to what
\* running it gives, [returncode, stdout].
get_values(data, sh) ==
    IF data = None THEN Ok(<<>>)
    ELSE IF "list" \in DOMAIN data[1] THEN Ok(data[1].list)
    ELSE LET proc == sh[data[1].command]
         IN  IF proc.returncode # 0 THEN Failed("ExternalCommandError")
             ELSE Ok(non_empty(split(proc.stdout, "\n")))

\* paths_array of library.load: a Path of every value.
lib_paths_array(data, sh) ==
    LET values == get_values(data, sh)
    IN  IF ~values.ok THEN values
        ELSE Ok([i \in DOMAIN values.val |-> Path(values.val[i])])

\* One Library(...) of library.load.  oid is the identity of the object built.
library_entry(name, fields, sh) ==
    LET find_package == get_values(Get(fields, "find_package"), sh)
        pkg_check    == get_values(Get(fields, "pkg_check"), sh)
        include_dirs == lib_paths_array(Get(fields, "include_dirs"), sh)
        link_dirs    == lib_paths_array(Get(fields, "link_dirs"), sh)
        link_libs    == get_values(Get(fields, "link_libs"), sh)
    IN  IF ~(find_package.ok /\ pkg_check.ok /\ include_dirs.ok /\ link_dirs.ok
             /\ link_libs.ok)
        THEN Failed("ExternalCommandError")
        ELSE Ok([name         |-> name,
                 find_package |-> find_package.val,
                 pkg_check    |-> pkg_check.val,
                 include_dirs |-> include_dirs.val,
                 link_dirs    |-> link_dirs.val,
                 link_libs    |-> link_libs.val,
                 oid          |-> <<"catalog", name>>])

\* library.load: the libraries of one catalog file.
library_load(data, sh) ==
    IF ~validate_library(data) THEN Failed("SchemaError")
    ELSE LET libs == [name \in DOMAIN data |-> library_entry(name, data[name], sh)]
         IN  IF \E name \in DOMAIN data : ~libs[name].ok
             THEN Failed("ExternalCommandError")
             ELSE Ok([name \in DOMAIN data |-> libs[name].val])

\* library.load_all: every file of the directory, a later file's entry
\* replacing an earlier one of the same name.
RECURSIVE load_all_from(_, _, _, _)
load_all_from(directory, sh, i, libraries) ==
    IF i > Len(directory) THEN Ok(libraries)
    ELSE LET loaded == library_load(directory[i], sh)
         IN  IF ~loaded.ok THEN loaded
             ELSE load_all_from(directory, sh, i + 1, loaded.val @@ libraries)

load_all(directory, sh) == load_all_from(directory, sh, 1, <<>>)

----------------------------------------------------------------------------
(* buildinfo.py                                                            *)

InfoKeys ==
    {"projectname", "builddir", "flags", "libraries", "include_dirs", "copy", "targets"}

InfoRequired == {"projectname", "builddir", "targets"}

TargetKeys ==
    {"name", "type", "srcs", "flags", "libraries", "include_dirs", "install_to",
     "install_includes"}

TargetRequired == {"name", "srcs"}

\* '^(executable|sharedlib|staticlib)$'
TypePattern == {"executable", "sharedlib", "staticlib"}

\* jsonschema.validate(data, INFO_SCHEMA)
validate_info(data) ==
    /\ DOMAIN data \subseteq InfoKeys
    /\ InfoRequired \subseteq DOMAIN data
    /\ \A i \in DOMAIN data.targets :
          LET target == data.targets[i]
          IN  /\ DOMAIN target \subseteq TargetKeys
              /\ TargetRequired \subseteq DOMAIN target
              /\ "type" \in DOMAIN target => target.type \in TypePattern

\* target_type: TargetType[type_or_none.upper()], EXECUTABLE for None.
target_type(type_or_none) ==
    IF type_or_none = "None" THEN "EXECUTABLE"
    ELSE CASE type_or_none = "executable" -> "EXECUTABLE"
           [] type_or_none = "sharedlib"  -> "SHAREDLIB"
           [] type_or_none = "staticlib"  -> "STATICLIB"

\* paths_array of buildinfo.load: [] for None, else a Path of every string.
paths_array(value) ==
    IF value = None THEN <<>> ELSE [i \in DOMAIN value[1] |-> Path(value[1][i])]

\* The Library a sharedlib or staticlib target registers for itself.
local_library(name) ==
    [name         |-> name,
     link_libs    |-> <<name>>,
     find_package |-> <<>>,
     pkg_check    |-> <<>>,
     include_dirs |-> <<>>,
     link_dirs    |-> <<>>,
     oid          |-> <<"local", name>>]

\* The loop over data['targets'], were a catalog library to win over the
\* target of its name.
RECURSIVE add_local_libraries_catalog_first(_, _, _)
add_local_libraries_catalog_first(targets, i, all_libraries) ==
    IF i > Len(targets) THEN all_libraries
    ELSE LET target == targets[i]
             type   == target_type(GetOr(target, "type", "None"))
         IN  IF type \in {"SHAREDLIB", "STATICLIB"}
             THEN add_local_libraries_catalog_first(targets, i + 1,
                      all_libraries @@ (target.name :> local_library(target.name)))
             ELSE add_local_libraries_catalog_first(targets, i + 1, all_libraries)

\* "Add local libraries to the list of libraries": the loop over data['targets'].
RECURSIVE add_local_libraries(_, _, _)
add_local_libraries(targets, i, all_libraries) ==
    IF i > Len(targets) THEN all_libraries
    ELSE LET target == targets[i]
             type   == target_type(GetOr(target, "type", "None"))
         IN  IF type \in {"SHAREDLIB", "STATICLIB"}
             THEN add_local_libraries(targets, i + 1,
                      (target.name :> local_library(target.name)) @@ all_libraries)
             ELSE add_local_libraries(targets, i + 1, all_libraries)

\* get_libraries, before the lookup: the names, each once, first occurrence kept.
lib_names(info_libs, target_libs) ==
    unique_list((IF info_libs = None THEN <<>> ELSE info_libs[1])
                \o (IF target_libs = None THEN <<>> ELSE target_libs[1]))

\* get_libraries: all_libraries[name] of every name; an unknown name is a KeyError.
get_libraries(info_libs, target_libs, all_libraries) ==
    LET names == lib_names(info_libs, target_libs)
    IN  IF \E i \in DOMAIN names : names[i] \notin DOMAIN all_libraries
        THEN Failed("KeyError")
        ELSE Ok([i \in DOMAIN names |-> all_libraries[names[i]]])

\* str.strip() of a flags text, whose whitespace is the token " ".
RECURSIVE lstrip(_)
lstrip(text) ==
    IF text # <<>> /\ Head(text) = " " THEN lstrip(Tail(text)) ELSE text

RECURSIVE rstrip(_)
rstrip(text) ==
    IF text # <<>> /\ text[Len(text)] = " "
    THEN rstrip(SubSeq(text, 1, Len(text) - 1)) ELSE text

strip(text) == rstrip(lstrip(text))

\* One Target(...) of the Info that load returns.
load_target(data, target, all_libraries) ==
    LET base_includes == paths_array(Get(data, "include_dirs"))
        base_flags    == GetOr(data, "flags", <<>>) \o <<" ">>
        libraries     == get_libraries(Get(data, "libraries"), Get(target, "libraries"),
                                       all_libraries)
    IN  IF ~libraries.ok THEN libraries
        ELSE Ok([name             |-> target.name,
                 type             |-> target_type(GetOr(target, "type", "None")),
                 srcs             |-> [i \in DOMAIN target.srcs |-> Path(target.srcs[i])],
                 flags            |-> strip(base_flags \o GetOr(target, "flags", <<>>)),
                 libraries        |-> libraries.val,
                 include_dirs     |-> base_includes
                                      \o paths_array(Get(target, "include_dirs")),
                 install_to       |-> paths_array(Get(target, "install_to")),
                 install_includes |-> paths_array(Get(target, "install_includes"))])

\* buildinfo.load: validate, register the local libraries, build the Info.
buildinfo_load(data, libraries) ==
    IF ~validate_info(data) THEN Failed("SchemaError")
    ELSE LET all_libraries == add_local_libraries(data.targets, 1, libraries)
             targets == [i \in DOMAIN data.targets |->
                            load_target(data, data.targets[i], all_libraries)]
         IN  IF \E i \in DOMAIN targets : ~targets[i].ok THEN Failed("KeyError")
             ELSE Ok([projectname |-> data.projectname,
                      builddir    |-> Path(data.builddir),
                      copy        |-> GetOr(data, "copy", <<>>),
                      targets     |-> [i \in DOMAIN targets |-> targets[i].val]])

----------------------------------------------------------------------------
(* The source tree: src and src/sub, and the files that may exist in src/sub. *)

SrcDir == << <<"src">> >>

SubDir == << <<"src">>, <<"sub">> >>

Subdirectories == (SrcDir :> << <<"sub">> >>) @@ (SubDir :> <<>>)

SourceFiles ==
    { [dir |-> SubDir, name |-> <<"a", ".c">>],
      [dir |-> SubDir, name |-> <<"b", ".c">>] }

\* The patterns of the descriptions: every .c file below src, every .h file
\* below src (there is none), and one file by name.
AllC == <<"src", "/", "*", ".c">>

AllH == <<"src", "/", "*", ".h">>

LiteralA == <<"src", "/", "sub", "/", "a", ".c">>

\* Every state of the source tree: the files of each directory in the order
\* the directory enumerates them, which is the order of their creation.
Orders(names) == {s \in SeqsUpTo(names, Cardinality(names)) : NoDuplicates(s)}

NamesIn(dir) == {f.name : f \in {g \in SourceFiles : g.dir = dir}}

Trees ==
    {[files |-> (SrcDir :> a) @@ (SubDir :> b), dirs |-> Subdirectories] :
        a \in Orders(NamesIn(SrcDir)), b \in Orders(NamesIn(SubDir))}

Patterns == {Path(AllC), Path(AllH), Path(LiteralA)}

----------------------------------------------------------------------------
(* driver.py: get_sources                                                  *)

\* fnmatch of one path part against one pattern part.
RECURSIVE fnmatch(_, _)
fnmatch(name, pat) ==
    IF pat = <<>> THEN name = <<>>
    ELSE IF Head(pat) = "*"
         THEN fnmatch(name, Tail(pat)) \/ (name # <<>> /\ fnmatch(Tail(name), pat))
         ELSE name # <<>> /\ Head(name) = Head(pat) /\ fnmatch(Tail(name), Tail(pat))

\* os.scandir of dir: the names of its files (wantDirs = FALSE) or of its
\* subdirectories (wantDirs = TRUE), in enumeration order.  tree.files maps a
\* directory to its files, tree.dirs to its subdirectories.
scandir(tree, dir, wantDirs) ==
    LET entries == IF wantDirs THEN tree.dirs ELSE tree.files
    IN  IF dir \in DOMAIN entries THEN entries[dir] ELSE <<>>

\* The selectors of pattern parts pat, applied in directory dir.
RECURSIVE select_from(_, _, _)
select_from(tree, dir, pat) ==
    IF Len(pat) = 1
    THEN LET names == scandir(tree, dir, FALSE)
             hits  == [i \in DOMAIN names |->
                          IF fnmatch(names[i], pat[1])
                          THEN << Append(dir, names[i]) >> ELSE <<>>]
         IN  Flatten(hits)
    ELSE LET subs == scandir(tree, dir, TRUE)
             hits == [i \in DOMAIN subs |->
                         IF fnmatch(subs[i], pat[1])
                         THEN select_from(tree, Append(dir, subs[i]), Tail(pat))
                         ELSE <<>>]
         IN  Flatten(hits)

\* The "**" selector: dir itself, then every directory below it.
RECURSIVE iterate_directories(_, _)
iterate_directories(tree, dir) ==
    LET subs == scandir(tree, dir, TRUE)
    IN  <<dir>> \o Flatten([i \in DOMAIN subs |->
                              iterate_directories(tree, Append(dir, subs[i]))])

\* parent.glob('**/' + pattern)
glob(tree, parent, pat) ==
    LET dirs == iterate_directories(tree, parent)
    IN  Flatten([i \in DOMAIN dirs |-> select_from(tree, dirs[i], pat)])

HasWildcard(part) == \E i \in DOMAIN part : part[i] = "*"

\* The index of the first part of the path that holds a pattern, 0 for None.
first_pattern_idx(parts) ==
    IF \E i \in DOMAIN parts : HasWildcard(parts[i])
    THEN CHOOSE i \in DOMAIN parts :
            HasWildcard(parts[i]) /\ \A j \in 1..(i - 1) : ~HasWildcard(parts[j])
    ELSE 0

\* get_sources: a literal path is its own only source; a pattern is globbed
\* below the directory before its first wildcard part.
get_sources(pattern_path, tree) ==
    LET idx == first_pattern_idx(pattern_path)
    IN  IF idx = 0 THEN <<pattern_path>>
        ELSE glob(tree, SubSeq(pattern_path, 1, idx - 1),
                  SubSeq(pattern_path, idx, Len(pattern_path)))

\* get_sources of every pattern in every state of the source tree.
Globbed == [tree \in Trees |-> [pattern \in Patterns |-> get_sources(pattern, tree)]]

\* [src for srcs in target.srcs for src in get_sources(srcs)]
target_sources(target, tree) ==
    Flatten([i \in DOMAIN target.srcs |-> Globbed[tree][target.srcs[i]]])

----------------------------------------------------------------------------
(* driver.py: check_source_files                                           *)

\* all_srcs, were the empty line after the last path read as a path too.
read_records_every_line(dir) ==
    [name \in DOMAIN dir |->
        LET lines == split(dir[name], "\n")
        IN  [i \in DOMAIN lines |-> Path(lines[i])]]

\* all_srcs: every record of the previous run, name -> [Path(line) for line in
\* text.split('\n') if line].
read_records(dir) ==
    [name \in DOMAIN dir |->
        LET lines == non_empty(split(dir[name], "\n"))
        IN  [i \in DOMAIN lines |-> Path(lines[i])]]

\* '\n'.join(str(src) for src in srcs) + '\n'
record_text(srcs) ==
    join([i \in DOMAIN srcs |-> path_str(srcs[i])], "\n") \o <<"\n">>

\* "if not srcs", were an empty list not told from any other.
no_sources_never(srcs) == FALSE

\* "if not srcs": the target matched no file.
no_sources(srcs) == srcs = <<>>

\* The comparison, were it of the sources as a set.
sources_differ_as_sets(all_srcs, name, srcs) ==
    name \notin DOMAIN all_srcs \/ Range(all_srcs[name]) # Range(srcs)

\* The comparison, were it of the number of sources only.
sources_differ_in_number(all_srcs, name, srcs) ==
    name \notin DOMAIN all_srcs \/ Len(all_srcs[name]) # Len(srcs)

\* "target.name not in all_srcs or all_srcs[target.name] != srcs"
sources_differ(all_srcs, name, srcs) ==
    name \notin DOMAIN all_srcs \/ all_srcs[name] # srcs

\* The loop over data.info.targets.  acc holds the flags of data, the records
\* written so far and, for the record, each target's srcs.
RECURSIVE check_targets(_, _, _, _, _)
check_targets(targets, i, all_srcs, tree, acc) ==
    IF i > Len(targets) THEN acc
    ELSE LET target == targets[i]
             srcs   == target_sources(target, tree)
         IN  check_targets(targets, i + 1, all_srcs, tree,
                 [run_cmake  |-> IF no_sources(srcs) THEN FALSE ELSE acc.run_cmake,
                  run_make   |-> IF no_sources(srcs) THEN FALSE ELSE acc.run_make,
                  need_cmake |-> IF sources_differ(all_srcs, target.name, srcs)
                                 THEN TRUE ELSE acc.need_cmake,
                  srcdir     |-> (target.name :> record_text(srcs)) @@ acc.srcdir,
                  srcs       |-> Append(acc.srcs, srcs)])

\* check_source_files, were the records of the previous run left in place.
check_source_files_keeping(data, dir, tree) ==
    check_targets(data.info.targets, 1, read_records(dir), tree,
                  [run_cmake  |-> data.run_cmake,
                   run_make   |-> data.run_make,
                   need_cmake |-> data.need_cmake,
                   srcdir     |-> dir,
                   srcs       |-> <<>>])

\* check_source_files: read and remove every record, then compare and write
\* one record per target.
check_source_files(data, dir, tree) ==
    check_targets(data.info.targets, 1, read_records(dir), tree,
                  [run_cmake  |-> data.run_cmake,
                   run_make   |-> data.run_make,
                   need_cmake |-> data.need_cmake,
                   srcdir     |-> <<>>,
                   srcs       |-> <<>>])

----------------------------------------------------------------------------
(* driver.py: generate_cmake.  A line is a sequence of tokens.             *)

\* ' '.join(strings)
join_strings(strings) == join([i \in DOMAIN strings |-> <<strings[i]>>], " ")

\* ' '.join(str(path) for path in paths)
join_paths(paths) == join([i \in DOMAIN paths |-> path_str(paths[i])], " ")

\* [x for lib in libraries for x in lib.<field>]
lib_field(libraries, field) ==
    Flatten([i \in DOMAIN libraries |-> libraries[i][field]])

\* all_libraries, were two libraries one when their find_package is the same.
all_libraries_by_find_package(targets) ==
    LET libs == Flatten([i \in DOMAIN targets |-> targets[i].libraries])
    IN  unique_list_key(libs, [i \in DOMAIN libs |-> libs[i].find_package])

\* util.unique_list(lib for target in info.targets for lib in target.libraries,
\* key=id)
all_libraries_of(targets) ==
    LET libs == Flatten([i \in DOMAIN targets |-> targets[i].libraries])
    IN  unique_list_key(libs, [i \in DOMAIN libs |-> libs[i].oid])

header_lines(inf) ==
    LET all_libraries == all_libraries_of(inf.targets)
        find_packs == lib_field(all_libraries, "find_package")
        pkg_checks == lib_field(all_libraries, "pkg_check")
        link_dirs  == lib_field(all_libraries, "link_dirs")
    IN  << <<"cmake_minimum_required(VERSION 2.8 FATAL_ERROR)">>,
           <<>>,
           <<"project(", inf.projectname, ")">> >>
        \o (IF find_packs = <<>> THEN <<>>
            ELSE << <<>> >>
                 \o [i \in DOMAIN find_packs |-> <<"find_package(", find_packs[i], ")">>])
        \o (IF pkg_checks = <<>> THEN <<>>
            ELSE << <<>>, <<"INCLUDE(FindPkgConfig)">>, <<>> >>
                 \o [i \in DOMAIN pkg_checks |->
                        <<"pkg_check_modules(", pkg_checks[i], ")">>])
        \o (IF link_dirs = <<>> THEN <<>>
            ELSE << <<"link_directories(">> \o join_paths(link_dirs) \o <<")">> >>)

\* "include_dirs = target.include_dirs; include_dirs += [...]": the list the
\* target holds, extended in place by the libraries' include dirs.
extended_include_dirs(target) ==
    target.include_dirs \o lib_field(target.libraries, "include_dirs")

\* link_libs of the target's libraries, in order.
target_link_libs(target) == lib_field(target.libraries, "link_libs")

\* The link-libraries directive, were it written for every target.
link_lines_always(target) ==
    << <<"target_link_libraries(", target.name, " ">>
       \o join_strings(target_link_libs(target)) \o <<")">> >>

\* The link-libraries directive of a target: none for no link_libs.
link_lines(target) ==
    LET link_libs == target_link_libs(target)
    IN  IF link_libs = <<>> THEN <<>>
        ELSE << <<"target_link_libraries(", target.name, " ">>
                \o join_strings(link_libs) \o <<")">> >>

\* The body of the first loop over info.targets, for one target.
target_lines(target) ==
    LET files_var    == <<"SRC_FILES_", target.name>>
        include_dirs == extended_include_dirs(target)
    IN  << <<>>,
           <<"file(GLOB_RECURSE ">> \o files_var \o <<" ">>
               \o join_paths(target.srcs) \o <<")">>,
           CASE target.type = "EXECUTABLE" ->
                    <<"add_executable(", target.name, " ${">> \o files_var \o <<"})">>
             [] target.type = "SHAREDLIB" ->
                    <<"add_library(", target.name, " SHARED ${">> \o files_var \o <<"})">>
             [] target.type = "STATICLIB" ->
                    <<"add_library(", target.name, " STATIC ${">> \o files_var \o <<"})">> >>
        \o (IF target.flags = <<>> THEN <<>>
            ELSE << <<"target_compile_options(", target.name, " PRIVATE ">>
                    \o target.flags \o <<")">> >>)
        \o (IF include_dirs = <<>> THEN <<>>
            ELSE << <<"target_include_directories(", target.name, " PRIVATE ">>
                    \o join_paths(include_dirs) \o <<")">> >>)
        \o link_lines(target)

install_type(type) ==
    CASE type = "EXECUTABLE" -> "RUNTIME"
      [] type = "SHAREDLIB"  -> "LIBRARY"
      [] type = "STATICLIB"  -> "ARCHIVE"

\* install(TARGETS ...) of one target, one line per destination.
install_lines(target) ==
    [i \in DOMAIN target.install_to |->
        <<"install(TARGETS ", target.name, " ", install_type(target.type),
          " DESTINATION ">> \o path_str(target.install_to[i]) \o <<")">>]

\* '*' in str(include)
is_pattern(include) == \E i \in DOMAIN path_str(include) : path_str(include)[i] = "*"

\* The install_includes of all targets, in order, that are patterns or are not.
install_includes_of(targets, patterns) ==
    LET all == Flatten([i \in DOMAIN targets |-> targets[i].install_includes])
    IN  Flatten([i \in DOMAIN all |->
                    IF is_pattern(all[i]) = patterns THEN <<all[i]>> ELSE <<>>])

\* Path.parent and Path.name
parent_of(path) == SubSeq(path, 1, Len(path) - 1)

name_of(path) == path[Len(path)]

include_lines(targets) ==
    LET include_files    == install_includes_of(targets, FALSE)
        include_patterns == install_includes_of(targets, TRUE)
    IN  (IF include_files = <<>> THEN <<>>
         ELSE << <<"install(FILES ">> \o join_paths(include_files)
                 \o <<" DESTINATION include)">> >>)
        \o [i \in DOMAIN include_patterns |->
               <<"install(DIRECTORY ">> \o path_str(parent_of(include_patterns[i]))
               \o <<" DESTINATION include FILES_MATCHING PATTERN \"">>
               \o name_of(include_patterns[i]) \o <<"\")">>]

\* cmake_data, were the copy lines written before the install directives.
cmake_data_copy_first(inf) ==
    header_lines(inf)
    \o Flatten([i \in DOMAIN inf.targets |-> target_lines(inf.targets[i])])
    \o << <<>> >>
    \o [i \in DOMAIN inf.copy |-> <<inf.copy[i]>>]
    \o Flatten([i \in DOMAIN inf.targets |-> install_lines(inf.targets[i])])
    \o include_lines(inf.targets)

\* cmake_data, the lines of the project file.
cmake_data(inf) ==
    header_lines(inf)
    \o Flatten([i \in DOMAIN inf.targets |-> target_lines(inf.targets[i])])
    \o << <<>> >>
    \o Flatten([i \in DOMAIN inf.targets |-> install_lines(inf.targets[i])])
    \o include_lines(inf.targets)
    \o [i \in DOMAIN inf.copy |-> <<inf.copy[i]>>]

\* The Info after generate_cmake: every target's include_dirs is the list that
\* was extended in place.
info_after_generate(inf) ==
    [inf EXCEPT !.targets =
        [i \in DOMAIN inf.targets |->
            [inf.targets[i] EXCEPT !.include_dirs =
                extended_include_dirs(inf.targets[i])]]]

\* generate_cmake: the text written, '\n'.join(cmake_data) + '\n', and the Info
\* left behind.
generate_cmake(inf) ==
    [text |-> join(cmake_data(inf), "\n") \o <<"\n">>,
     info |-> info_after_generate(inf)]

----------------------------------------------------------------------------
(* The inputs: the library catalog, the shell and the project              *)
(* descriptions.                                                           *)

\* How many times build.info is rewritten.
MaxEdits == 1

\* How many library names a target of a generated description lists.
MaxTargetLibs == 2

\* How many times generate_cmake is called on one Info.
MaxRenders == 2

PkgConfig == "pkg-config --cflags-only-I gtk+-3.0"

\* build_data/libs: two catalog files.  core is also the name of a target.
LibsDir ==
    << [mathlib |-> [link_libs    |-> [list |-> <<"m">>],
                     include_dirs |-> [list |-> << <<"opt", "/", "math">> >>]],
        core    |-> [link_libs    |-> [list |-> <<"core_legacy">>]]],
       [gtk     |-> [find_package |-> [list |-> <<"GTK3 REQUIRED">>],
                     pkg_check    |-> [list |-> <<"GTK3 gtk+-3.0">>],
                     include_dirs |-> [command |-> PkgConfig],
                     link_dirs    |-> [list |-> << <<"opt", "/", "gtk", "/", "lib">> >>],
                     link_libs    |-> [list |-> <<"gtk-3">>]],
        gdk     |-> [find_package |-> [list |-> <<"GTK3 REQUIRED">>],
                     pkg_check    |-> [list |-> <<"GTK3 gtk+-3.0">>],
                     link_dirs    |-> [list |-> << <<"opt", "/", "gtk", "/", "lib">> >>],
                     link_libs    |-> [list |-> <<>>]]] >>

\* What running the catalog's command can give.
ShellOk ==
    (PkgConfig :> [returncode |-> 0,
                   stdout     |-> <<"opt", "/", "gtk", "/", "include", "\n",
                                    "opt", "/", "glib", "\n">>])

ShellFails == (PkgConfig :> [returncode |-> 1, stdout |-> <<>>])

Shells == {ShellOk, ShellFails}

EmptyFn == [x \in {} |-> x]

Opt(key, present, value) == IF present THEN key :> value ELSE EmptyFn

\* A target of a description; type "None" and libraries None leave the key out.
TargetDoc(name, type, srcs, libraries, more) ==
    [name |-> name, srcs |-> srcs]
    @@ Opt("type", type # "None", type)
    @@ Opt("libraries", libraries # None, IF libraries = None THEN <<>> ELSE libraries[1])
    @@ more

ProjectDoc(libraries, targets, more) ==
    [projectname |-> "demo", builddir |-> <<"build.dir">>, targets |-> targets]
    @@ Opt("libraries", libraries # <<>>, libraries)
    @@ more

\* The orders in which a description declares its targets: names are unique
\* within a project.
NameOrders == {<<>>, <<"app">>, <<"core">>, <<"app", "core">>, <<"core", "app">>}

\* The targets of the orchestrator's runs: an executable app over the .c files,
\* app with a literal source first and linked with core, app with a library
\* nobody defines, app with a type the schema refuses, and a shared library
\* core over the .h files.
AppPlain == TargetDoc("app", "None", <<AllC>>, None, EmptyFn)

AppLinked == TargetDoc("app", "executable", <<LiteralA, AllC>>, <<<<"core">>>>, EmptyFn)

AppUnknownLib == TargetDoc("app", "None", <<AllC>>, <<<<"nosuch">>>>, EmptyFn)

AppBadType == TargetDoc("app", "module", <<AllC>>, None, EmptyFn)

CoreLib == TargetDoc("core", "sharedlib", <<AllH>>, None, EmptyFn)

RunDocs ==
    {ProjectDoc(<<>>, targets, EmptyFn) :
        targets \in {<<AppPlain, CoreLib>>, <<AppPlain>>, <<AppLinked>>,
                     <<AppUnknownLib>>, <<AppBadType>>}}

\* The descriptions given to the loader and the generator: app an executable
\* or a static library, core a shared library, every list of up to
\* MaxTargetLibs library names on a target, and a few lists on the project.
GenTypes(name) == IF name = "app" THEN {"None", "staticlib"} ELSE {"sharedlib"}

TargetLibNames == {"mathlib", "core", "nosuch"}

ProjectLibs == {<<>>, <<"mathlib">>, <<"gtk", "gdk">>}

GenMore(name) ==
    IF name = "app"
    THEN [flags        |-> <<"-Wall">>,
          include_dirs |-> << <<"inc">> >>,
          install_to   |-> << <<"bin">> >>]
    ELSE [install_to       |-> << <<"lib">> >>,
          install_includes |-> << <<"include", "/", "core", ".h">>,
                                  <<"include", "/", "*", ".h">> >>]

GenTargets(name) ==
    {TargetDoc(name, type, <<IF name = "app" THEN AllC ELSE AllH>>, <<libraries>>,
               GenMore(name)) :
        type \in GenTypes(name), libraries \in SeqsUpTo(TargetLibNames, MaxTargetLibs)}

\* The target lists that declare the names of order.
GenTargetLists(order) ==
    IF Len(order) = 0 THEN {<<>>}
    ELSE IF Len(order) = 1 THEN {<<t>> : t \in GenTargets(order[1])}
    ELSE {<<t, u>> : t \in GenTargets(order[1]), u \in GenTargets(order[2])}

GenDocs ==
    UNION {{ProjectDoc(libraries, targets, [copy |-> <<"enable_testing()", "add_subdirectory(tests)">>]) :
               libraries \in ProjectLibs, targets \in GenTargetLists(order)} :
              order \in NameOrders}

----------------------------------------------------------------------------
(* driver.py: read_info and handle_run_build                               *)

NoFile == [exists |-> FALSE, text |-> <<>>, mtime |-> 0]

\* need_init of read_info: no CMakeLists.txt, or build.info is newer than it.
need_init(bf, cm) == IF cm.exists THEN bf.mtime > cm.mtime ELSE TRUE

\* library.load_all(BUILDDATADIR / 'libs') under each shell.
Catalog == [sh \in Shells |-> load_all(LibsDir, sh)]

\* buildinfo.load of each description, with the catalog's libraries.
Loaded == [d \in RunDocs |-> buildinfo_load(d, Catalog[ShellOk].val)]

\* generate_cmake of each description that loads: the text it writes.
Generated ==
    [d \in RunDocs |-> IF Loaded[d].ok THEN generate_cmake(Loaded[d].val).text ELSE <<>>]

\* read_info: the BuildData of a loaded build.info.  The libraries are the
\* catalog's, the only ones handle_run_build passes.
read_info(bf, run_cmake, run_make, cm) ==
    LET loaded == Loaded[bf.doc]
    IN  IF ~loaded.ok THEN loaded
        ELSE Ok([info       |-> loaded.val,
                 run_cmake  |-> run_cmake,
                 run_make   |-> run_make,
                 need_cmake |-> FALSE,
                 need_init  |-> need_init(bf, cm)])

\* The condition of run_cmake, were it the caller's argument alone.
cmake_invoked_when_asked(need_cmake, run_cmake) == run_cmake

\* "if data.need_cmake and data.run_cmake: run_cmake(...)"
cmake_invoked(need_cmake, run_cmake) == need_cmake /\ run_cmake

\* "if data.run_make: run_make(...)"
make_invoked(run_make) == run_make

\* A run that exits with an error, were the records removed before the exit.
aborted_records_removed(err, bf, dir, cm) ==
    [status |-> "error", err |-> err, srcdir |-> <<>>, cmakelists |-> cm,
     need_init |-> FALSE, need_cmake |-> FALSE, generated |-> FALSE,
     cmake_ran |-> FALSE, make_ran |-> FALSE, names |-> <<>>, srcs |-> <<>>]

\* What a run that exits before check_source_files leaves: nothing is written.
aborted(err, bf, dir, cm) ==
    [status |-> "error", err |-> err, srcdir |-> dir, cmakelists |-> cm,
     need_init |-> FALSE, need_cmake |-> FALSE, generated |-> FALSE,
     cmake_ran |-> FALSE, make_ran |-> FALSE, names |-> <<>>, srcs |-> <<>>]

\* A run that reaches check_source_files, were no record left when the
\* regeneration was required and cmake was not invoked.
completed_pending_kept(data, checked, bf, cm) ==
    LET need_cmake == IF data.need_init THEN TRUE ELSE checked.need_cmake
    IN  [status     |-> "ok",
         err        |-> "",
         srcdir     |-> IF need_cmake /\ ~cmake_invoked(need_cmake, checked.run_cmake)
                        THEN <<>> ELSE checked.srcdir,
         cmakelists |-> IF data.need_init
                        THEN [exists |-> TRUE,
                              text   |-> Generated[bf.doc],
                              mtime  |-> bf.mtime]
                        ELSE cm,
         need_init  |-> data.need_init,
         need_cmake |-> checked.need_cmake,
         generated  |-> data.need_init,
         cmake_ran  |-> cmake_invoked(need_cmake, checked.run_cmake),
         make_ran   |-> make_invoked(checked.run_make),
         names      |-> [i \in DOMAIN data.info.targets |-> data.info.targets[i].name],
         srcs       |-> checked.srcs]

\* What a run that reaches check_source_files leaves.
completed(data, checked, bf, cm) ==
    LET need_cmake == IF data.need_init THEN TRUE ELSE checked.need_cmake
    IN  [status     |-> "ok",
         err        |-> "",
         srcdir     |-> checked.srcdir,
         cmakelists |-> IF data.need_init
                        THEN [exists |-> TRUE,
                              text   |-> Generated[bf.doc],
                              mtime  |-> bf.mtime]
                        ELSE cm,
         need_init  |-> data.need_init,
         need_cmake |-> checked.need_cmake,
         generated  |-> data.need_init,
         cmake_ran  |-> cmake_invoked(need_cmake, checked.run_cmake),
         make_ran   |-> make_invoked(checked.run_make),
         names      |-> [i \in DOMAIN data.info.targets |-> data.info.targets[i].name],
         srcs       |-> checked.srcs]

\* handle_run_build, from load_all to run_make.
handle_run_build(run_cmake, run_make, sh, bf, dir, cm, tree) ==
    LET libraries == Catalog[sh]
    IN  IF ~libraries.ok THEN aborted(libraries.err, bf, dir, cm)
        ELSE LET data == read_info(bf, run_cmake, run_make, cm)
             IN  IF ~data.ok THEN aborted(data.err, bf, dir, cm)
                 ELSE completed(data.val, check_source_files(data.val, dir, tree),
                                bf, cm)

----------------------------------------------------------------------------
(* The orchestrator's runs over a changing source tree and description.    *)

NoCheck == [n |-> 0, doc |-> EmptyFn, names |-> <<>>, srcs |-> <<>>, existing |-> {},
            need_cmake |-> FALSE, touched |-> FALSE, stale |-> FALSE,
            same_doc |-> FALSE, same_lists |-> FALSE, same_sets |-> FALSE,
            set_changed |-> FALSE, pending |-> FALSE]

\* The sources a check recorded for the target called name.
SrcsOf(check, name) ==
    check.srcs[CHOOSE i \in DOMAIN check.names : check.names[i] = name]

\* The source files there are in the tree.
Existing(tree_files) == {f \in SourceFiles : f.name \in Range(tree_files[f.dir])}

\* The tree has the files it had at the check before, and every target of the
\* check has the same files as in the check before, as a set.
SameSets(names, srcs, existing, before) ==
    /\ names = before.names
    /\ existing = before.existing
    /\ \A i \in DOMAIN names : Range(srcs[i]) = Range(before.srcs[i])

\* Some target of the check was in the check before with another set of files:
\* a file was added to it or removed from it.
SetChanged(names, srcs, before) ==
    \E i \in DOMAIN names :
        /\ names[i] \in Range(before.names)
        /\ Range(srcs[i]) # Range(SrcsOf(before, names[i]))

\* The invocation before completed and found the regeneration required, by
\* need_init or by the records, and cmake was not invoked.
Pending(before, check) ==
    /\ before.status = "ok"
    /\ check.need_cmake \/ before.generated
    /\ ~before.cmake_ran

NoRun == [status |-> "none", err |-> "", existed |-> FALSE, newer |-> FALSE,
          generated |-> FALSE, cmake_ran |-> FALSE, make_ran |-> FALSE]

NotLoaded == Failed("not loaded")

\* The project as first set up: an executable app over the .c files and a
\* shared library core over the .h files, no source file yet, nothing built.
InitialDoc == ProjectDoc(<<>>, <<AppPlain, CoreLib>>, EmptyFn)

NoFiles == (SrcDir :> <<>>) @@ (SubDir :> <<>>)

Init ==
    /\ buildfile = [doc |-> InitialDoc, mtime |-> 0]
    /\ files = NoFiles
    /\ srcdir = <<>>
    /\ cmakelists = NoFile
    /\ run = NoRun
    /\ last = NoCheck
    /\ touched = FALSE
    /\ info = NotLoaded
    /\ rendered = <<>>

\* A source file is created: it is enumerated after the files there are.
CreateFile(f) ==
    /\ f.name \notin Range(files[f.dir])
    /\ files' = [files EXCEPT ![f.dir] = Append(@, f.name)]
    /\ UNCHANGED <<buildfile, srcdir, cmakelists, run, last, touched, info, rendered>>

RECURSIVE without(_, _)
without(s, x) ==
    IF s = <<>> THEN <<>>
    ELSE IF Head(s) = x THEN without(Tail(s), x)
    ELSE <<Head(s)>> \o without(Tail(s), x)

\* A source file is removed.
DeleteFile(f) ==
    /\ f.name \in Range(files[f.dir])
    /\ files' = [files EXCEPT ![f.dir] = without(@, f.name)]
    /\ UNCHANGED <<buildfile, srcdir, cmakelists, run, last, touched, info, rendered>>

\* The contents of a source file are changed: no file appears or disappears.
ModifyFile(f) ==
    /\ f.name \in Range(files[f.dir])
    /\ touched' = TRUE
    /\ UNCHANGED <<buildfile, files, srcdir, cmakelists, run, last, info, rendered>>

\* build.info is rewritten, which makes it newer than any file there is.
EditBuildInfo(d) ==
    /\ buildfile.mtime < MaxEdits
    /\ d # buildfile.doc
    /\ buildfile' = [doc |-> d, mtime |-> buildfile.mtime + 1]
    /\ UNCHANGED <<files, srcdir, cmakelists, run, last, touched, info, rendered>>

\* One invocation of the tool: handle_run_build with the arguments' run_cmake
\* and run_make, in an environment whose shell is sh.
RunBuild(run_cmake, run_make, sh) ==
    \E out \in {handle_run_build(run_cmake, run_make, sh, buildfile, srcdir,
                                cmakelists, [files |-> files, dirs |-> Subdirectories])} :
        /\ srcdir' = out.srcdir
        /\ cmakelists' = out.cmakelists
        /\ run' = [status    |-> out.status,
                   err       |-> out.err,
                   existed   |-> cmakelists.exists,
                   newer     |-> cmakelists.exists /\ buildfile.mtime > cmakelists.mtime,
                   generated |-> out.generated,
                   cmake_ran |-> out.cmake_ran,
                   make_ran  |-> out.make_ran]
        /\ IF out.status = "ok"
           THEN /\ last' = [n           |-> IF last.n = 0 THEN 1 ELSE 2,
                            doc         |-> buildfile.doc,
                            names       |-> out.names,
                            srcs        |-> out.srcs,
                            existing    |-> Existing(files),
                            need_cmake  |-> out.need_cmake,
                            touched     |-> touched,
                            stale       |-> DOMAIN srcdir \ Range(out.names) # {},
                            same_doc    |-> last.doc = buildfile.doc,
                            same_lists  |-> out.names = last.names /\ out.srcs = last.srcs,
                            same_sets   |-> SameSets(out.names, out.srcs, Existing(files), last),
                            set_changed |-> SetChanged(out.names, out.srcs, last),
                            pending     |-> Pending(run, last)]
                /\ touched' = FALSE
           ELSE UNCHANGED <<last, touched>>
        /\ UNCHANGED <<buildfile, files, info, rendered>>

Next ==
    \/ \E f \in SourceFiles : CreateFile(f)
    \/ \E f \in SourceFiles : DeleteFile(f)
    \/ \E f \in SourceFiles : ModifyFile(f)
    \/ \E d \in RunDocs : EditBuildInfo(d)
    \/ \E run_cmake, run_make \in BOOLEAN, sh \in Shells : RunBuild(run_cmake, run_make, sh)

Spec == Init /\ [][Next]_vars

----------------------------------------------------------------------------
(* The loader and the generator applied to a description.                  *)

InitGen ==
    /\ buildfile \in {[doc |-> d, mtime |-> 0] : d \in GenDocs}
    /\ files = NoFiles
    /\ srcdir = <<>>
    /\ cmakelists = NoFile
    /\ run = NoRun
    /\ last = NoCheck
    /\ touched = FALSE
    /\ info = NotLoaded
    /\ rendered = <<>>

\* buildinfo.load of the description, with the catalog's libraries.
Load ==
    /\ info = NotLoaded
    /\ info' = buildinfo_load(buildfile.doc, load_all(LibsDir, ShellOk).val)
    /\ UNCHANGED <<buildfile, files, srcdir, cmakelists, run, last, touched, rendered>>

\* generate_cmake of the Info held: the text is written, the Info is left as
\* the generator changed it.
Render ==
    /\ info.ok
    /\ Len(rendered) < MaxRenders
    /\ LET out == generate_cmake(info.val)
       IN  /\ rendered' = Append(rendered, out.text)
           /\ info' = Ok(out.info)
    /\ UNCHANGED <<buildfile, files, srcdir, cmakelists, run, last, touched>>

NextGen == Load \/ Render

SpecGen == InitGen /\ [][NextGen]_vars

----------------------------------------------------------------------------
(* Properties of the change detector and the orchestrator, under Spec.     *)

\* C1, as stated: when check_source_files runs twice in succession and
\* neither the description nor the set of files any target's patterns match
\* changes in between, the second run leaves need_cmake false.
C1_SameSetNotRequired ==
    last.n = 2 /\ last.same_doc /\ last.same_sets => ~last.need_cmake

\* C1, amended: when check_source_files runs twice in succession and neither
\* the description nor the ordered list of paths any target's patterns expand
\* to changes in between, the second run leaves need_cmake false.
C1_SameListNotRequired ==
    last.n = 2 /\ last.same_doc /\ last.same_lists => ~last.need_cmake

\* Two checks in succession of one description whose targets expanded to the
\* same lists, one of them of two files.
C1_Witness ==
    /\ last.n = 2
    /\ last.same_doc
    /\ last.same_lists
    /\ \E i \in DOMAIN last.srcs : Len(last.srcs[i]) >= 2

\* C2, as stated: a file added to or removed from the files some target
\* matches makes the later run report regeneration required; a further run
\* with the identical matched set reports it not required; a change of file
\* contents alone never makes a run report it required.
C2_Original ==
    last.n = 2 =>
        /\ last.set_changed => last.need_cmake
        /\ last.same_doc /\ last.same_sets => ~last.need_cmake
        /\ last.touched /\ last.same_doc /\ last.same_sets => ~last.need_cmake

\* C2, amended: a file added to or removed from the files some target matches
\* makes the later run report regeneration required; a further run in which
\* every target expands to the identical ordered list reports it not
\* required; a change of file contents, the lists being the same, never
\* makes a run report it required.
C2_AddedOrRemovedRequired ==
    last.n = 2 =>
        /\ last.set_changed => last.need_cmake
        /\ last.same_doc /\ last.same_lists => ~last.need_cmake
        /\ last.touched /\ last.same_doc /\ last.same_lists => ~last.need_cmake

\* A check before which a file was added to or removed from a target's files
\* and the contents of a file were changed.
C2_Witness == last.n = 2 /\ last.set_changed /\ last.touched

\* C3: in a run in which some target's expanded source list is empty, neither
\* cmake nor make is invoked, whatever the arguments were, also when another
\* target's list changed or CMakeLists.txt was just generated.
C3_EmptyTargetSuppresses ==
    run.status = "ok" /\ (\E i \in DOMAIN last.srcs : last.srcs[i] = <<>>)
        => ~run.cmake_ran /\ ~run.make_ran

\* A run that generated CMakeLists.txt and found a target without sources
\* next to one whose sources were new.
C3_Witness ==
    /\ run.status = "ok"
    /\ run.generated
    /\ last.need_cmake
    /\ \E i, j \in DOMAIN last.srcs : last.srcs[i] = <<>> /\ last.srcs[j] # <<>>

\* C7: a run that fails with a schema violation, an unknown library name, an
\* unrecognized target type or a failing library command leaves CMakeLists.txt
\* and the persisted records exactly as they were before the run.
C7_FailedRunWritesNothing ==
    [][(\E run_cmake, run_make \in BOOLEAN, sh \in Shells :
            RunBuild(run_cmake, run_make, sh))
       /\ run'.status = "error"
       => srcdir' = srcdir /\ cmakelists' = cmakelists]_vars

\* A run failed on an unknown library name while records and CMakeLists.txt
\* of an earlier run were there.
C7_Witness ==
    /\ run.status = "error"
    /\ run.err = "KeyError"
    /\ DOMAIN srcdir # {}
    /\ cmakelists.exists

\* The text of a record that holds srcs: one path a line.
RecordOf(srcs) ==
    IF srcs = <<>> THEN <<"\n">>
    ELSE Flatten([i \in DOMAIN srcs |-> path_str(srcs[i]) \o <<"\n">>])

\* C8: after a completed check_source_files there is exactly one record per
\* current target and no other, also for a target without sources, and each
\* record holds that target's current expanded source list.
C8_OneRecordPerTarget ==
    run.status = "ok" =>
        /\ DOMAIN srcdir = Range(last.names)
        /\ \A i \in DOMAIN last.names :
              srcdir[last.names[i]] = RecordOf(last.srcs[i])

\* A completed run that found the record of a target the description has no
\* more, and a current target without sources.
C8_Witness ==
    /\ run.status = "ok"
    /\ last.stale
    /\ \E i \in DOMAIN last.srcs : last.srcs[i] = <<>>

\* C9, as stated: cmake is invoked only if the change detector reported
\* regeneration required in that run or CMakeLists.txt did not exist when the
\* run started.
C9_Original == run.cmake_ran => last.need_cmake \/ ~run.existed

\* C9, amended: cmake is invoked only if the change detector reported
\* regeneration required in that run, or CMakeLists.txt did not exist when the
\* run started, or build.info was newer than CMakeLists.txt.
C9_CmakeOnlyWhenRequired ==
    run.cmake_ran => last.need_cmake \/ ~run.existed \/ run.newer

\* cmake was invoked in a run that found CMakeLists.txt older than build.info
\* and whose change detector reported nothing.
C9_Witness ==
    /\ run.cmake_ran
    /\ run.existed
    /\ run.newer
    /\ ~last.need_cmake

\* C11: after check_source_files, need_cmake is true exactly when some
\* current target has no previous record or its current source list differs
\* from its previous record as an ordered sequence, a reordering of the same
\* files included, whether or not a target is without sources.
C11_RequiredIffRecordDiffers ==
    [][(\E run_cmake, run_make \in BOOLEAN, sh \in Shells :
            RunBuild(run_cmake, run_make, sh))
       /\ run'.status = "ok"
       => (last'.need_cmake <=>
              \E i \in DOMAIN last'.names :
                  \/ last'.names[i] \notin DOMAIN srcdir
                  \/ srcdir[last'.names[i]] # RecordOf(last'.srcs[i]))]_vars

\* A check that found the files of the check before in another order and
\* reported regeneration required, in a run with a target without sources.
C11_Witness ==
    /\ last.n = 2
    /\ last.same_doc
    /\ last.same_sets
    /\ ~last.same_lists
    /\ last.need_cmake
    /\ \E i \in DOMAIN last.srcs : last.srcs[i] = <<>>

\* C14: the records are written in every completed run, whether or not cmake
\* was invoked.  When the invocation before completed, found the regeneration
\* required and did not invoke cmake, and the run finds build.info no newer
\* than CMakeLists.txt, the files that were there and for every target the
\* list of the run before, it finds the regeneration not required: neither
\* by need_init nor by the records.
C14_PendingNotCarriedOver ==
    [][(\E run_cmake, run_make \in BOOLEAN, sh \in Shells :
            RunBuild(run_cmake, run_make, sh))
       /\ run'.status = "ok"
       /\ last'.pending
       /\ ~run'.newer
       /\ last'.same_lists
       /\ last'.same_sets
       => ~last'.need_cmake /\ ~run'.generated /\ ~run'.cmake_ran]_vars

\* A run after a run that required the regeneration and was kept from it by a
\* target without sources, nothing changed in between.
C14_Witness ==
    /\ run.status = "ok"
    /\ last.pending
    /\ ~run.newer
    /\ last.same_doc
    /\ last.same_lists
    /\ last.same_sets
    /\ ~last.need_cmake
    /\ ~run.generated
    /\ \E i \in DOMAIN last.srcs : last.srcs[i] = <<>>

----------------------------------------------------------------------------
(* Properties of the loader and the generator, under SpecGen.              *)

\* The library names the description declares for its i-th target: the
\* project's, then the target's.
DeclaredNames(doc, i) ==
    GetOr(doc, "libraries", <<>>) \o GetOr(doc.targets[i], "libraries", <<>>)

\* The target is of type sharedlib or staticlib.
LibKind(target) ==
    "type" \in DOMAIN target /\ target.type \in {"sharedlib", "staticlib"}

\* The names of the merged registry: the catalog's and the library targets'.
KnownNames(doc) ==
    DOMAIN Catalog[ShellOk].val
    \cup {doc.targets[i].name : i \in {j \in DOMAIN doc.targets : LibKind(doc.targets[j])}}

\* lib is the Library a library target stands for.
IsLocalLibrary(lib, name) ==
    /\ lib.name = name
    /\ lib.link_libs = <<name>>
    /\ lib.find_package = <<>>
    /\ lib.pkg_check = <<>>
    /\ lib.include_dirs = <<>>
    /\ lib.link_dirs = <<>>

\* Target u of the description lists the name of its library target t.
ListsLibraryTarget(doc, t, u) ==
    /\ LibKind(doc.targets[t])
    /\ doc.targets[t].name \in Range(GetOr(doc.targets[u], "libraries", <<>>))

\* C4, as stated: in a project whose target T is a sharedlib or a staticlib,
\* any target that lists the name T is loaded successfully and its resolved
\* libraries contain a Library with name T, link_libs [T] and nothing else.
C4_Original ==
    info # NotLoaded =>
        \A t, u \in DOMAIN buildfile.doc.targets :
            ListsLibraryTarget(buildfile.doc, t, u) =>
                /\ info.ok
                /\ \E k \in DOMAIN info.val.targets[u].libraries :
                      IsLocalLibrary(info.val.targets[u].libraries[k],
                                     buildfile.doc.targets[t].name)

\* C4, amended: in a project whose target T is a sharedlib or a staticlib and
\* in which a target lists the name T, the load succeeds exactly when every
\* library name the project and its targets list is in the merged registry,
\* and then the resolved libraries of any target that lists T contain a
\* Library with name T, link_libs [T] and nothing else, also when the catalog
\* has a library of that name.
C4_LibraryTargetResolves ==
    info # NotLoaded =>
        \A t, u \in DOMAIN buildfile.doc.targets :
            ListsLibraryTarget(buildfile.doc, t, u) =>
                /\ info.ok <=>
                      \A i \in DOMAIN buildfile.doc.targets :
                          Range(DeclaredNames(buildfile.doc, i))
                              \subseteq KnownNames(buildfile.doc)
                /\ info.ok =>
                      \E k \in DOMAIN info.val.targets[u].libraries :
                          IsLocalLibrary(info.val.targets[u].libraries[k],
                                         buildfile.doc.targets[t].name)

\* A loaded project whose first target lists the library target declared
\* after it, of a name the catalog has too.
C4_Witness ==
    /\ info.ok
    /\ \E t, u \in DOMAIN buildfile.doc.targets :
          /\ u < t
          /\ ListsLibraryTarget(buildfile.doc, t, u)
          /\ buildfile.doc.targets[t].name \in DOMAIN Catalog[ShellOk].val

\* The first place of x in s.
FirstIndex(s, x) == CHOOSE i \in DOMAIN s : s[i] = x /\ \A j \in 1..(i - 1) : s[j] # x

\* C5: the resolved libraries of every loaded target are the project's library
\* names followed by the target's, each name once, in the order of first
\* declaration, each name mapped to its Library.
C5_ResolvedInDeclarationOrder ==
    info.ok =>
        \A i \in DOMAIN info.val.targets :
            LET declared == DeclaredNames(buildfile.doc, i)
                libs     == info.val.targets[i].libraries
            IN  /\ {libs[k].name : k \in DOMAIN libs} = Range(declared)
                /\ \A a, b \in DOMAIN libs :
                      a < b => FirstIndex(declared, libs[a].name)
                                   < FirstIndex(declared, libs[b].name)
                /\ \A k \in DOMAIN libs :
                      IF \E t \in DOMAIN buildfile.doc.targets :
                            /\ LibKind(buildfile.doc.targets[t])
                            /\ buildfile.doc.targets[t].name = libs[k].name
                      THEN IsLocalLibrary(libs[k], libs[k].name)
                      ELSE libs[k] = Catalog[ShellOk].val[libs[k].name]

\* A loaded target that declares a name, another name, and the first again.
C5_Witness ==
    /\ info.ok
    /\ \E i \in DOMAIN info.val.targets :
          LET declared == DeclaredNames(buildfile.doc, i)
          IN  \E a, b, c \in DOMAIN declared :
                  /\ a < b /\ b < c
                  /\ declared[a] = declared[c]
                  /\ declared[a] # declared[b]

\* C6: generate_cmake called twice in succession on one Info writes the same
\* text both times.
C6_RendersIdentical == Len(rendered) >= 2 => rendered[2] = rendered[1]

\* The tokens with a space between each two.
Spaced(tokens) ==
    [n \in 1..(2 * Len(tokens) - 1) |->
        IF n % 2 = 1 THEN tokens[(n + 1) \div 2] ELSE " "]

\* The line of the text that starts at place p, without its newline.
LineAt(text, p) ==
    LET ends == {q \in p..Len(text) : text[q] = "\n"}
    IN  SubSeq(text, p, (CHOOSE q \in ends : \A r \in ends : q <= r) - 1)

\* The places of the text where a link-libraries directive of name starts.
DirectivesOf(text, name) ==
    {p \in 1..(Len(text) - 1) :
        /\ p = 1 \/ text[p - 1] = "\n"
        /\ text[p] = "target_link_libraries("
        /\ text[p + 1] = name}

\* C10: the rendered text has a link-libraries directive for a target exactly
\* when the link_libs of its resolved libraries, concatenated, are not empty,
\* and the directive lists them in the order of the resolved libraries.
C10_LinkDirective ==
    \A r \in DOMAIN rendered :
        \A i \in DOMAIN info.val.targets :
            LET target == info.val.targets[i]
                linked == Flatten([k \in DOMAIN target.libraries |->
                                      target.libraries[k].link_libs])
                directives == DirectivesOf(rendered[r], target.name)
            IN  IF linked = <<>> THEN directives = {}
                ELSE /\ Cardinality(directives) = 1
                     /\ \A p \in directives :
                           LineAt(rendered[r], p)
                               = <<"target_link_libraries(", target.name, " ">>
                                 \o Spaced(linked) \o <<")">>

\* A rendered project with a target that links m of mathlib alone and a
\* target that links nothing.
C10_Witness ==
    /\ rendered # <<>>
    /\ \E i, j \in DOMAIN info.val.targets :
          /\ Flatten([k \in DOMAIN info.val.targets[i].libraries |->
                         info.val.targets[i].libraries[k].link_libs]) = <<"m">>
          /\ info.val.targets[j].libraries = <<>>

\* The elements of s at the places of P, in the order of s.
AtPlaces(s, P) ==
    [n \in 1..Cardinality(P) |->
        s[CHOOSE p \in P : Cardinality({q \in P : q <= p}) = n]]

\* The places of the text where a line starts with the token first.
LinesWith(text, first) ==
    {p \in DOMAIN text : (p = 1 \/ text[p - 1] = "\n") /\ text[p] = first}

\* The arguments of the one-argument directives of the text that start with
\* the token first, in the order of the text.
ArgumentsOf(text, first) ==
    LET places == LinesWith(text, first)
    IN  AtPlaces(text, {p + 1 : p \in places})

\* The Library objects the targets resolved, each once, in the order in
\* which the targets meet them first.
DistinctLibraries(targets) ==
    LET all == Flatten([i \in DOMAIN targets |-> targets[i].libraries])
    IN  AtPlaces(all, {k \in DOMAIN all : \A j \in 1..(k - 1) : all[j].oid # all[k].oid})

\* The paths, as texts, with a space between each two.
SpacedPaths(paths) ==
    Flatten([i \in DOMAIN paths |->
                (IF i = 1 THEN <<>> ELSE <<" ">>) \o path_str(paths[i])])

\* C12: the package-finder, package-check and link-search-path directives
\* hold the entries of every distinct resolved Library object once, in the
\* order in which the targets meet the objects first: a Library several
\* targets reference contributes once, and a string two Library objects
\* declare is written once for each.
C12_DirectivesByLibraryObject ==
    \A r \in DOMAIN rendered :
        LET libs      == DistinctLibraries(info.val.targets)
            link_dirs == Flatten([k \in DOMAIN libs |-> libs[k].link_dirs])
            places    == LinesWith(rendered[r], "link_directories(")
        IN  /\ ArgumentsOf(rendered[r], "find_package(")
                  = Flatten([k \in DOMAIN libs |-> libs[k].find_package])
            /\ ArgumentsOf(rendered[r], "pkg_check_modules(")
                  = Flatten([k \in DOMAIN libs |-> libs[k].pkg_check])
            /\ IF link_dirs = <<>> THEN places = {}
               ELSE /\ Cardinality(places) = 1
                    /\ \A p \in places :
                          LineAt(rendered[r], p)
                              = <<"link_directories(">> \o SpacedPaths(link_dirs)
                                \o <<")">>

\* A rendered project of two targets that both resolved gtk and gdk, two
\* Library objects with the same find_package, pkg_check and link_dirs.
C12_Witness ==
    /\ rendered # <<>>
    /\ Len(info.val.targets) = 2
    /\ \A i \in DOMAIN info.val.targets :
          {"gtk", "gdk"} \subseteq
              {info.val.targets[i].libraries[k].name :
                  k \in DOMAIN info.val.targets[i].libraries}
    /\ ArgumentsOf(rendered[1], "find_package(") = <<"GTK3 REQUIRED", "GTK3 REQUIRED">>

\* The lines of the text that start at the places of P, in the order of the
\* text.
LinesAt(text, P) ==
    [n \in 1..Cardinality(P) |->
        LineAt(text, CHOOSE p \in P : Cardinality({q \in P : q <= p}) = n)]

\* The first tokens of the build directives of a target.
BuildDirectives ==
    {"file(GLOB_RECURSE ", "add_executable(", "add_library(",
     "target_compile_options(", "target_include_directories(",
     "target_link_libraries("}

\* The places of the text where a build directive starts.
BuildPlaces(text) ==
    {p \in DOMAIN text : (p = 1 \/ text[p - 1] = "\n") /\ text[p] \in BuildDirectives}

\* The target the build directive at place p names.
BuildTarget(text, p) ==
    IF text[p] = "file(GLOB_RECURSE " THEN text[p + 2] ELSE text[p + 1]

\* The tag of the install directive of a target of the kind.
InstallTag(type) ==
    IF type = "EXECUTABLE" THEN "RUNTIME"
    ELSE IF type = "SHAREDLIB" THEN "LIBRARY" ELSE "ARCHIVE"

\* The install_includes of the targets, in order, with a "*" or without.
IncludesOf(targets, wildcard) ==
    LET all == Flatten([i \in DOMAIN targets |-> targets[i].install_includes])
    IN  AtPlaces(all, {k \in DOMAIN all :
                          ("*" \in Range(path_str(all[k]))) = wildcard})

\* C13: in every rendered text the build directives of the targets come
\* first, target by target in declaration order; then the install directives
\* of the targets, in declaration order, one for every install destination,
\* tagged RUNTIME, LIBRARY or ARCHIVE by the kind of the target; then one
\* install(FILES) directive of all install_includes without a wildcard, then
\* one install(DIRECTORY) directive for every install_includes with a
\* wildcard; the copy lines, as they are and in order, are the last lines.
C13_SectionsInOrder ==
    \A r \in DOMAIN rendered :
        LET text     == rendered[r]
            targets  == info.val.targets
            copy     == info.val.copy
            build    == BuildPlaces(text)
            inst     == LinesWith(text, "install(TARGETS ")
            headers  == LinesWith(text, "install(FILES ")
            dirs     == LinesWith(text, "install(DIRECTORY ")
            plain    == IncludesOf(targets, FALSE)
            patterns == IncludesOf(targets, TRUE)
            tail     == Flatten([i \in DOMAIN copy |-> <<copy[i], "\n">>])
            first    == Len(text) - Len(tail) + 1
            index(name) == CHOOSE i \in DOMAIN targets : targets[i].name = name
        IN  /\ \A p \in build : \A q \in inst \cup headers \cup dirs : p < q
            /\ \A p \in inst : \A q \in headers \cup dirs : p < q
            /\ \A p \in headers : \A q \in dirs : p < q
            /\ \A p \in build \cup inst \cup headers \cup dirs : p < first
            /\ {BuildTarget(text, p) : p \in build}
                  = {targets[i].name : i \in DOMAIN targets}
            /\ \A p, q \in build :
                  p < q => index(BuildTarget(text, p)) <= index(BuildTarget(text, q))
            /\ LinesAt(text, inst)
                  = Flatten([i \in DOMAIN targets |->
                       [d \in DOMAIN targets[i].install_to |->
                           <<"install(TARGETS ", targets[i].name, " ",
                             InstallTag(targets[i].type), " DESTINATION ">>
                           \o path_str(targets[i].install_to[d]) \o <<")">>]])
            /\ LinesAt(text, headers)
                  = IF plain = <<>> THEN <<>>
                    ELSE << <<"install(FILES ">> \o SpacedPaths(plain)
                            \o <<" DESTINATION include)">> >>
            /\ Cardinality(dirs) = Len(patterns)
            /\ first > 1
            /\ text[first - 1] = "\n"
            /\ SubSeq(text, first, Len(text)) = tail

\* A rendered project of an executable and a library that has build
\* directives of both, an install directive of each kind and two copy lines.
C13_Witness ==
    /\ rendered # <<>>
    /\ Len(info.val.targets) = 2
    /\ info.val.targets[1].type # info.val.targets[2].type
    /\ Cardinality(LinesWith(rendered[1], "install(TARGETS ")) = 2
    /\ LinesWith(rendered[1], "install(FILES ") # {}
    /\ LinesWith(rendered[1], "install(DIRECTORY ") # {}
    /\ Len(info.val.copy) = 2
    /\ \E p \in BuildPlaces(rendered[1]) : rendered[1][p] = "target_link_libraries("

====
